---- MODULE Spec2Model ----
(***************************************************************************)
(* A model of tlst.py: the TLST binary codec (TLST.fromTlst, TLST.toTlst), *)
(* readNTString and the JSON object hook (TLSTJsonDecoder.dict_to_object). *)
(*                                                                         *)
(* A file is a sequence of bytes (0..255) with a position, as Python's     *)
(* binary file object: a read past the end returns fewer bytes, a write    *)
(* past the end zero-fills the gap, struct.pack / struct.unpack raise      *)
(* struct.error on a value out of range / a buffer of the wrong length.    *)
(* A string is a sequence of code points; UTF-8 is modelled for code       *)
(* points below 0x800 (one- and two-byte sequences).                       *)
(*                                                                         *)
(* Bytes and strings are written packed: in a sequence, a negative number  *)
(* -k stands for k letters a (byte 97, code point 97) in a row, so that a  *)
(* string of 65534 letters is one item. Positions and sizes count bytes.   *)
(***************************************************************************)
EXTENDS Integers, Sequences, FiniteSets, TLC

VARIABLES
    stage,          \* which run this is: "build", "reread", "rebuild", "extract", "json"
    pc,             \* position inside the running function
    tracks,         \* self.tracks of the TLST object being written by toTlst
    file,           \* the bytes of the file at the path
    pos,            \* f.tell()
    x,              \* loop index x (both loops of toTlst, the loop of fromTlst)
    numEntries,     \* fromTlst: numEntries
    stringsOffset,  \* fromTlst and toTlst: stringsOffset
    entry,          \* fromTlst: the entry being filled
    filenameOffset, \* fromTlst: filenameOffset of the current record
    titleOffset,    \* fromTlst: titleOffset of the current record
    data,           \* readNTString: data
    entries,        \* fromTlst: entries
    result,         \* what fromTlst returned (tlst.tracks), None before / on failure
    err,            \* the exception that ended the function, "" if none
    errAt,          \* the pc at which it was raised
    orig,           \* round trip: the track list first written
    first,          \* round trip: the bytes first written
    d,              \* dict_to_object: the JSON object d
    obj             \* dict_to_object: what it returned

vars == <<stage, pc, tracks, file, pos, x, numEntries, stringsOffset, entry,
          filenameOffset, titleOffset, data, entries, result, err, errAt,
          orig, first, d, obj>>

----------------------------------------------------------------------------
(* Bounds of the model *)

\* longest track list written by toTlst
MaxTracks == 2
\* largest declared entry count / number of records of a hand-made input buffer
MaxRecords == 2

(* Program constants *)

\* placeholder / "absent" offset
SENTINEL == 65535
\* size of the header; the record region starts here
HeaderSize == 12
\* size of one record
RecordSize == 16
\* position of the filename offset inside a record
FilenameSlot == 8
\* position of the title offset inside a record
TitleSlot == 10
\* position of the total size field of the header
SizeField == 8

None == "None"

Min(a, b) == IF a < b THEN a ELSE b

----------------------------------------------------------------------------
(* struct *)

\* struct.calcsize of the formats the program uses
CalcSize(fmt) ==
    CASE fmt = "I" -> 4
      [] fmt = "H" -> 2
      [] fmt = "b" -> 1
      [] fmt = "?" -> 1

\* struct.pack raises struct.error unless the value fits the format
\* ("I": 0 <= v < 2^32, written with numbers below 2^31)
CanPack(fmt, v) ==
    CASE fmt = "I" -> v >= 0 /\ v \div 65536 < 65536
      [] fmt = "H" -> v >= 0 /\ v < 65536
      [] fmt = "b" -> v >= -128 /\ v < 128
      [] fmt = "?" -> TRUE

\* struct.pack(">" + fmt, v), big-endian
Pack(fmt, v) ==
    CASE fmt = "I" -> << (v \div 16777216) % 256, (v \div 65536) % 256,
                         (v \div 256) % 256, v % 256 >>
      [] fmt = "H" -> << (v \div 256) % 256, v % 256 >>
      [] fmt = "b" -> << (v + 256) % 256 >>
      [] fmt = "?" -> << IF v = TRUE THEN 1 ELSE 0 >>

\* struct.unpack raises struct.error unless the buffer has the format's size
CanUnpack(fmt, b) == Len(b) = CalcSize(fmt)

\* struct.unpack(">" + fmt, b)[0], big-endian
Unpack(fmt, b) ==
    CASE fmt = "I" -> ((b[1] * 256 + b[2]) * 256 + b[3]) * 256 + b[4]
      [] fmt = "H" -> b[1] * 256 + b[2]
      [] fmt = "b" -> IF b[1] >= 128 THEN b[1] - 256 ELSE b[1]
      [] fmt = "?" -> b[1] # 0

----------------------------------------------------------------------------
(* the binary file object *)

\* the number of bytes an item of a packed sequence stands for
ItemLen(v) == IF v >= 0 THEN 1 ELSE -v

\* k letters a, packed
Run(k) == IF k <= 0 THEN << >> ELSE IF k = 1 THEN << 97 >> ELSE << -k >>

\* no item of the sequence is a run
Plain(f) == \A j \in 1..Len(f) : f[j] >= 0

RECURSIVE SizeFrom(_, _)
SizeFrom(f, k) == IF k > Len(f) THEN 0 ELSE ItemLen(f[k]) + SizeFrom(f, k + 1)

\* len(f) in bytes
Size(f) == IF Plain(f) THEN Len(f) ELSE SizeFrom(f, 1)

RECURSIVE AtFrom(_, _, _)
AtFrom(f, k, i) ==
    IF i <= ItemLen(f[k]) THEN (IF f[k] >= 0 THEN f[k] ELSE 97)
    ELSE AtFrom(f, k + 1, i - ItemLen(f[k]))

\* byte number i (from 1) of f
At(f, i) == IF Plain(f) THEN f[i] ELSE AtFrom(f, 1, i)

RECURSIVE TakeFrom(_, _, _)
TakeFrom(f, k, n) ==
    IF n <= 0 \/ k > Len(f) THEN << >>
    ELSE IF ItemLen(f[k]) <= n
         THEN << f[k] >> \o TakeFrom(f, k + 1, n - ItemLen(f[k]))
    ELSE Run(n)

\* f[:n], the first n bytes of f
Take(f, n) == IF Plain(f) THEN SubSeq(f, 1, Min(n, Len(f))) ELSE TakeFrom(f, 1, n)

RECURSIVE DropFrom(_, _, _)
DropFrom(f, k, n) ==
    IF k > Len(f) THEN << >>
    ELSE IF n <= 0 THEN SubSeq(f, k, Len(f))
    ELSE IF ItemLen(f[k]) <= n THEN DropFrom(f, k + 1, n - ItemLen(f[k]))
    ELSE Run(ItemLen(f[k]) - n) \o SubSeq(f, k + 1, Len(f))

\* f[n:], f without its first n bytes
Drop(f, n) ==
    IF Plain(f) THEN (IF n >= Len(f) THEN << >> ELSE SubSeq(f, n + 1, Len(f)))
    ELSE DropFrom(f, 1, n)

\* Read, changed: a read that never comes up short (zeros past the end)
ReadPadded(f, p, n) ==
    [i \in 1..n |-> IF p + i <= Size(f) THEN At(f, p + i) ELSE 0]

\* f.read(n) at position p: the bytes from p, at most n, fewer at end of file
\* (n is 1, 2 or 4: the bytes are given one by one)
Read(f, p, n) ==
    IF Plain(f)
    THEN (IF p >= Len(f) THEN << >> ELSE SubSeq(f, p + 1, Min(p + n, Len(f))))
    ELSE [i \in 1..(Min(p + n, Size(f)) - Min(p, Size(f))) |-> At(f, p + i)]

\* n zero bytes
Zeros(n) == [i \in 1..n |-> 0]

\* f.write(b) at position p: overwrites, extends, zero-fills a gap
Write(f, p, b) ==
    IF b = << >> THEN f
    ELSE Take(f, p) \o Zeros(p - Size(f)) \o b \o Drop(f, p + Size(b))

----------------------------------------------------------------------------
(* str.encode("utf-8") and bytes.decode("utf-8") *)

\* the UTF-8 bytes of one item of a string: a code point below 0x800, or a
\* run of letters
EncodeChar(c) ==
    IF c < 128 THEN << c >> ELSE << 192 + (c \div 64), 128 + (c % 64) >>

\* s.encode("utf-8")
RECURSIVE Utf8Encode(_)
Utf8Encode(s) ==
    IF Len(s) = 0 THEN << >> ELSE EncodeChar(s[1]) \o Utf8Encode(Tail(s))

\* whether b.decode("utf-8") succeeds (one- and two-byte sequences)
RECURSIVE Utf8Valid(_)
Utf8Valid(b) ==
    IF Len(b) = 0 THEN TRUE
    ELSE IF b[1] < 128 THEN Utf8Valid(Tail(b))
    ELSE IF b[1] >= 194 /\ b[1] < 224 /\ Len(b) >= 2 /\ b[2] >= 128 /\ b[2] < 192
         THEN Utf8Valid(Tail(Tail(b)))
    ELSE FALSE

\* b.decode("utf-8") of valid bytes
RECURSIVE Utf8Decode(_)
Utf8Decode(b) ==
    IF Len(b) = 0 THEN << >>
    ELSE IF b[1] < 128 THEN << b[1] >> \o Utf8Decode(Tail(b))
    ELSE << (b[1] - 192) * 64 + (b[2] - 128) >> \o Utf8Decode(Tail(Tail(b)))

----------------------------------------------------------------------------
(* TLSTEntry *)

\* TLSTEntry.__init__: the default entry
NewEntry ==
    [songId |-> 0, delay |-> 0, volume |-> 0, frequency |-> 0, switch |-> 0,
     disablePinch |-> FALSE, disableTlstInclusion |-> FALSE,
     title |-> << >>, filename |-> << >>]

\* the values toTlst packs for one record, in the order it writes them
RecordFields(e) ==
    << <<"I", e.songId>>, <<"H", e.delay>>, <<"b", e.volume>>,
       <<"b", e.frequency>>, <<"H", SENTINEL>>, <<"H", SENTINEL>>,
       <<"H", e.switch>>, <<"?", e.disablePinch>>,
       <<"?", e.disableTlstInclusion>> >>

----------------------------------------------------------------------------
(* TLST.toTlst *)

\* f.write(struct.pack(...)) for each field in turn, stopping at the first
\* struct.error: what was written before it stays written
RECURSIVE WriteFields(_, _, _)
WriteFields(f, p, flds) ==
    IF flds = << >> THEN [file |-> f, pos |-> p, ok |-> TRUE]
    ELSE IF ~CanPack(flds[1][1], flds[1][2]) THEN [file |-> f, pos |-> p, ok |-> FALSE]
    ELSE WriteFields(Write(f, p, Pack(flds[1][1], flds[1][2])),
                     p + CalcSize(flds[1][1]), Tail(flds))

\* StoredOffset, changed: the offset from the start of the file
StoredOffsetAbsolute(off, so) == off

\* the offset stored for a string written at position off
StoredOffset(off, so) == off - so

\* one string of entry number i (from 0): nothing if it is empty, else the
\* string and a NUL at p, then the offset back-patched into the record's slot
WriteString(f, p, s, i, slot, so) ==
    IF s = << >> THEN [file |-> f, pos |-> p, ok |-> TRUE]
    ELSE LET b       == Utf8Encode(s) \o << 0 >>
             f1      == Write(f, p, b)
             prevOff == p + Size(b)
             at      == i * RecordSize + HeaderSize + slot
         IN  IF CanPack("H", StoredOffset(p, so))
             THEN [file |-> Write(f1, at, Pack("H", StoredOffset(p, so))),
                   pos |-> prevOff, ok |-> TRUE]
             ELSE [file |-> f1, pos |-> at, ok |-> FALSE]

\* BackPatch, changed: the two header fields in the other order
BackPatchSwapped(f, totalSize, so) ==
    WriteFields(f, SizeField, << <<"H", so>>, <<"H", totalSize>> >>)

\* the header fields written last: the total size, then the strings offset
BackPatch(f, totalSize, so) ==
    WriteFields(f, SizeField, << <<"H", totalSize>>, <<"H", so>> >>)

Raise(what) ==
    /\ pc' = "raised"
    /\ err' = what
    /\ errAt' = pc

\* open(path, "wb"), the magic, the number of entries, the seek to 0xC
ToTlstHeader ==
    /\ pc = "toTlst"
    /\ stage \in {"build", "rebuild"}
    /\ LET w == WriteFields(<< >>, 0,
                    << <<"b", 84>>, <<"b", 76>>, <<"b", 83>>, <<"b", 84>>,
                       <<"I", Len(tracks)>> >>)
       IN  /\ file' = w.file
           /\ IF ~w.ok
              THEN /\ Raise("struct.error")
                   /\ pos' = w.pos
                   /\ UNCHANGED stringsOffset
              ELSE /\ pos' = HeaderSize
                   /\ UNCHANGED <<err, errAt>>
                   /\ IF Len(tracks) > 0
                      THEN pc' = "record" /\ UNCHANGED stringsOffset
                      ELSE pc' = "finish" /\ stringsOffset' = HeaderSize
    /\ x' = 0
    /\ UNCHANGED <<stage, tracks, numEntries, entry, filenameOffset, titleOffset,
                   data, entries, result, orig, first, d, obj>>

\* one round of the first loop: the record of entry x
ToTlstRecord ==
    /\ pc = "record"
    /\ LET w == WriteFields(file, pos, RecordFields(tracks[x + 1]))
       IN  /\ file' = w.file
           /\ pos' = w.pos
           /\ IF ~w.ok
              THEN Raise("struct.error") /\ UNCHANGED <<x, stringsOffset>>
              ELSE /\ UNCHANGED <<err, errAt>>
                   /\ IF x + 1 < Len(tracks)
                      THEN pc' = "record" /\ x' = x + 1 /\ UNCHANGED stringsOffset
                      ELSE pc' = "filename" /\ x' = 0 /\ stringsOffset' = w.pos
    /\ UNCHANGED <<stage, tracks, numEntries, entry, filenameOffset, titleOffset,
                   data, entries, result, orig, first, d, obj>>

\* second loop, first half: the filename of entry x
ToTlstFilename ==
    /\ pc = "filename"
    /\ LET w == WriteString(file, pos, tracks[x + 1].filename, x, FilenameSlot,
                            stringsOffset)
       IN  /\ file' = w.file
           /\ pos' = w.pos
           /\ IF w.ok THEN pc' = "title" /\ UNCHANGED <<err, errAt>>
                      ELSE Raise("struct.error")
    /\ UNCHANGED <<stage, tracks, x, numEntries, stringsOffset, entry,
                   filenameOffset, titleOffset, data, entries, result, orig,
                   first, d, obj>>

\* second loop, second half: the title of entry x
ToTlstTitle ==
    /\ pc = "title"
    /\ LET w == WriteString(file, pos, tracks[x + 1].title, x, TitleSlot,
                            stringsOffset)
       IN  /\ file' = w.file
           /\ pos' = w.pos
           /\ IF ~w.ok
              THEN Raise("struct.error") /\ UNCHANGED x
              ELSE /\ UNCHANGED <<err, errAt>>
                   /\ x' = x + 1
                   /\ pc' = IF x + 1 < Len(tracks) THEN "filename" ELSE "finish"
    /\ UNCHANGED <<stage, tracks, numEntries, stringsOffset, entry,
                   filenameOffset, titleOffset, data, entries, result, orig,
                   first, d, obj>>

\* totalSize = f.tell(), the seek to 0x8 and the two header fields
ToTlstFinish ==
    /\ pc = "finish"
    /\ LET w == BackPatch(file, pos, stringsOffset)
       IN  /\ file' = w.file
           /\ pos' = w.pos
           /\ IF w.ok THEN pc' = "written" /\ UNCHANGED <<err, errAt>>
                      ELSE Raise("struct.error")
    /\ UNCHANGED <<stage, tracks, x, numEntries, stringsOffset, entry,
                   filenameOffset, titleOffset, data, entries, result, orig,
                   first, d, obj>>

----------------------------------------------------------------------------
(* TLST.fromTlst and readNTString *)

\* the position of field number i among fields of the given formats
RECURSIVE FieldOffset(_, _)
FieldOffset(fmts, i) ==
    IF i = 1 THEN 0 ELSE FieldOffset(fmts, i - 1) + CalcSize(fmts[i - 1])

\* what f.read(size) returns for field number i, the fields before it read
FieldBytes(f, p, fmts, i) == Read(f, p + FieldOffset(fmts, i), CalcSize(fmts[i]))

\* struct.unpack(f.read(size)) for each format in turn from position p,
\* stopping at the first struct.error (a read cut short by the end of the file)
ReadFields(f, p, fmts) ==
    LET bad == { i \in 1..Len(fmts) : ~CanUnpack(fmts[i], FieldBytes(f, p, fmts, i)) }
        at  == CHOOSE i \in bad : \A j \in bad : i <= j
    IN  IF bad = { }
        THEN [vals |-> [i \in 1..Len(fmts) |-> Unpack(fmts[i], FieldBytes(f, p, fmts, i))],
              pos |-> p + FieldOffset(fmts, Len(fmts) + 1),
              ok |-> TRUE]
        ELSE [vals |-> << >>,
              pos |-> p + FieldOffset(fmts, at) + Len(FieldBytes(f, p, fmts, at)),
              ok |-> FALSE]

\* the formats fromTlst unpacks for one record, in the order it reads them
RecordFormats == << "I", "H", "b", "b", "H", "H", "H", "?", "?" >>

\* the header: what fromTlst reads at 0x4 (numEntries) and, two bytes further
\* on, at 0xA (stringsOffset); the magic and the size are skipped
ReadHeader(f) ==
    LET n  == ReadFields(f, 4, << "I" >>)
        so == ReadFields(f, n.pos + 2, << "H" >>)
    IN  IF ~n.ok THEN n
        ELSE [vals |-> n.vals \o so.vals, pos |-> so.pos, ok |-> so.ok]

\* open(path, "rb") and the header
FromTlstHeader ==
    /\ pc = "fromTlst"
    /\ stage \in {"reread", "extract"}
    /\ \E h \in { ReadHeader(file) } :
           /\ pos' = h.pos
           /\ IF ~h.ok
              THEN /\ Raise("struct.error")
                   /\ UNCHANGED <<numEntries, stringsOffset, result>>
              ELSE /\ UNCHANGED <<err, errAt>>
                   /\ numEntries' = h.vals[1]
                   /\ stringsOffset' = h.vals[2]
                   /\ IF h.vals[1] > 0
                      THEN pc' = "readRecord" /\ UNCHANGED result
                      ELSE pc' = "returned" /\ result' = << >>
    /\ x' = 0
    /\ entries' = << >>
    /\ UNCHANGED <<stage, tracks, file, entry, filenameOffset, titleOffset, data,
                   orig, first, d, obj>>

\* one round of the loop up to the strings: the seek to the record of entry x
\* and its fields, then the seek to the first string to read, if any
FromTlstRecord ==
    /\ pc = "readRecord"
    /\ \E r \in { ReadFields(file, x * RecordSize + HeaderSize, RecordFormats) } :
           IF ~r.ok
           THEN /\ Raise("struct.error")
                /\ pos' = r.pos
                /\ UNCHANGED <<entry, filenameOffset, titleOffset>>
           ELSE /\ UNCHANGED <<err, errAt>>
                /\ entry' = [NewEntry EXCEPT !.songId = r.vals[1],
                                             !.delay = r.vals[2],
                                             !.volume = r.vals[3],
                                             !.frequency = r.vals[4],
                                             !.switch = r.vals[7],
                                             !.disablePinch = r.vals[8],
                                             !.disableTlstInclusion = r.vals[9]]
                /\ filenameOffset' = r.vals[5]
                /\ titleOffset' = r.vals[6]
                /\ IF r.vals[6] # SENTINEL
                   THEN pc' = "readTitle" /\ pos' = r.vals[6] + stringsOffset
                   ELSE IF r.vals[5] # SENTINEL
                   THEN pc' = "readFilename" /\ pos' = r.vals[5] + stringsOffset
                   ELSE pc' = "endCheck" /\ pos' = r.pos
    /\ data' = << >>
    /\ UNCHANGED <<stage, tracks, file, x, numEntries, stringsOffset, entries,
                   result, orig, first, d, obj>>

\* one round of the loop of readNTString, c = f.read(1), and what follows the
\* loop when c is the NUL: the decoding, the assignment to the entry and the
\* seek to the filename after the title
ReadNTString ==
    /\ pc \in {"readTitle", "readFilename"}
    /\ \E c \in { Read(file, pos, 1) } :
           IF c # << 0 >>
           THEN /\ data' = data \o c
                /\ pos' = pos + Len(c)
                /\ UNCHANGED <<pc, entry, err, errAt>>
           ELSE IF ~Utf8Valid(data)
           THEN /\ Raise("UnicodeDecodeError")
                /\ pos' = pos + 1
                /\ UNCHANGED <<data, entry>>
           ELSE /\ UNCHANGED <<err, errAt>>
                /\ data' = << >>
                /\ IF pc = "readTitle"
                   THEN /\ entry' = [entry EXCEPT !.title = Utf8Decode(data)]
                        /\ IF filenameOffset # SENTINEL
                           THEN /\ pc' = "readFilename"
                                /\ pos' = filenameOffset + stringsOffset
                           ELSE pc' = "endCheck" /\ pos' = pos + 1
                   ELSE /\ entry' = [entry EXCEPT !.filename = Utf8Decode(data)]
                        /\ pc' = "endCheck"
                        /\ pos' = pos + 1
    /\ UNCHANGED <<stage, tracks, file, x, numEntries, stringsOffset,
                   filenameOffset, titleOffset, entries, result, orig, first,
                   d, obj>>

\* the end of a round: entries.append(entry), the break when the position is
\* the end of the file, else the next round or the return
FromTlstEndCheck ==
    /\ pc = "endCheck"
    /\ entries' = Append(entries, entry)
    /\ pos' = Size(file)
    /\ IF pos = Size(file) \/ x + 1 >= numEntries
       THEN pc' = "returned" /\ result' = Append(entries, entry) /\ UNCHANGED x
       ELSE pc' = "readRecord" /\ x' = x + 1 /\ UNCHANGED result
    /\ UNCHANGED <<stage, tracks, file, numEntries, stringsOffset, entry,
                   filenameOffset, titleOffset, data, err, errAt, orig, first,
                   d, obj>>

----------------------------------------------------------------------------
(* TLSTJsonDecoder.dict_to_object *)

\* the keys of an entry, in the order dict_to_object reads them
EntryKeys ==
    << "songId", "delay", "volume", "frequency", "switch", "disablePinch",
       "disableTlstInclusion", "title", "filename" >>

\* entry.<key> = value
SetField(e, key, value) ==
    CASE key = "songId" -> [e EXCEPT !.songId = value]
      [] key = "delay" -> [e EXCEPT !.delay = value]
      [] key = "volume" -> [e EXCEPT !.volume = value]
      [] key = "frequency" -> [e EXCEPT !.frequency = value]
      [] key = "switch" -> [e EXCEPT !.switch = value]
      [] key = "disablePinch" -> [e EXCEPT !.disablePinch = value]
      [] key = "disableTlstInclusion" -> [e EXCEPT !.disableTlstInclusion = value]
      [] key = "title" -> [e EXCEPT !.title = value]
      [] key = "filename" -> [e EXCEPT !.filename = value]

\* entry.<key> = dd[key] for each key in turn; dd[key] raises KeyError when
\* the key is missing
RECURSIVE AssignFields(_, _, _)
AssignFields(e, dd, keys) ==
    IF keys = << >> THEN [kind |-> "TLSTEntry", value |-> e]
    ELSE IF keys[1] \notin DOMAIN dd THEN [kind |-> "KeyError", value |-> keys[1]]
    ELSE AssignFields(SetField(e, keys[1], dd[keys[1]]), dd, Tail(keys))

\* dict_to_object(dd): an entry, a TLST, the dict itself, or KeyError
DictToObjectOf(dd) ==
    IF "songId" \in DOMAIN dd THEN AssignFields(NewEntry, dd, EntryKeys)
    ELSE IF "tracks" \in DOMAIN dd THEN [kind |-> "TLST", value |-> dd["tracks"]]
    ELSE [kind |-> "dict", value |-> dd]

DictToObject ==
    /\ pc = "dict_to_object"
    /\ LET o == DictToObjectOf(d)
       IN  IF o.kind = "KeyError"
           THEN Raise("KeyError") /\ UNCHANGED obj
           ELSE pc' = "returned" /\ obj' = o /\ UNCHANGED <<err, errAt>>
    /\ UNCHANGED <<stage, tracks, file, pos, x, numEntries, stringsOffset, entry,
                   filenameOffset, titleOffset, data, entries, result, orig,
                   first, d>>

----------------------------------------------------------------------------
(* The round trips: fromTlst on what toTlst wrote, toTlst on what it read *)

\* TLST.fromTlst on the file toTlst has written (TLSTProcessor.processTlst)
StartReread ==
    /\ stage = "build"
    /\ pc = "written"
    /\ stage' = "reread"
    /\ pc' = "fromTlst"
    /\ first' = file
    /\ pos' = 0
    /\ UNCHANGED <<tracks, file, x, numEntries, stringsOffset, entry,
                   filenameOffset, titleOffset, data, entries, result, err,
                   errAt, orig, d, obj>>

\* toTlst of the TLST that fromTlst returned (TLSTProcessor.processJson)
StartRebuild ==
    /\ stage = "reread"
    /\ pc = "returned"
    /\ stage' = "rebuild"
    /\ pc' = "toTlst"
    /\ tracks' = result
    /\ pos' = 0
    /\ UNCHANGED <<file, x, numEntries, stringsOffset, entry, filenameOffset,
                   titleOffset, data, entries, result, err, errAt, orig, first,
                   d, obj>>

----------------------------------------------------------------------------
(* The inputs *)

\* a string of n letters a
Letters(n) == Run(n)

\* "", "a" and "éb" (three bytes in UTF-8)
Strings == { << >>, << 97 >>, << 233, 98 >> }

\* an entry with every numeric field set, each byte of each field different
Sample ==
    [songId |-> 16909060, delay |-> 1286, volume |-> -2, frequency |-> 127,
     switch |-> 2057, disablePinch |-> TRUE, disableTlstInclusion |-> FALSE,
     title |-> << >>, filename |-> << >>]

ValidEntries ==
    { [Sample EXCEPT !.title = t, !.filename = fn] : t \in Strings, fn \in Strings }
        \cup { NewEntry }

\* entries with a field that does not fit its slot
BadEntries ==
    { [NewEntry EXCEPT !.delay = 65536, !.filename = << 97 >>],
      [NewEntry EXCEPT !.frequency = -129] }

\* title "Song A", filename "song_a.brstm", songId 1
SongA ==
    [NewEntry EXCEPT !.songId = 1,
                     !.title = << 83, 111, 110, 103, 32, 65 >>,
                     !.filename = << 115, 111, 110, 103, 95, 97, 46, 98, 114,
                                     115, 116, 109 >>]

\* track lists whose string region reaches the end of the 16-bit offsets
LongLists ==
    { << [NewEntry EXCEPT !.filename = Letters(SENTINEL - 1), !.title = << 97 >>] >>,
      << [NewEntry EXCEPT !.filename = Letters(SENTINEL), !.title = << 97 >>] >>,
      << [NewEntry EXCEPT !.title = Letters(SENTINEL - 1)],
         [NewEntry EXCEPT !.filename = << 97 >>] >> }

TrackLists ==
    UNION { [1..n -> ValidEntries \cup BadEntries] : n \in 0..MaxTracks }
        \cup { << SongA >> } \cup LongLists

\* the record of Sample with the given offsets in its two slots
RawRecord(fo, to) ==
    Pack("I", Sample.songId) \o Pack("H", Sample.delay)
        \o Pack("b", Sample.volume) \o Pack("b", Sample.frequency)
        \o Pack("H", fo) \o Pack("H", to) \o Pack("H", Sample.switch)
        \o Pack("?", Sample.disablePinch)
        \o Pack("?", Sample.disableTlstInclusion)

\* k copies of a record
RECURSIVE Records(_, _)
Records(k, rec) == IF k = 0 THEN << >> ELSE rec \o Records(k - 1, rec)

\* the two tags tried: "TLST" and "TLSX"
Magics == { << 84, 76, 83, 84 >>, << 84, 76, 83, 88 >> }

\* the offset pairs <<filename, title>> tried in the records
OffsetPairs ==
    { << SENTINEL, SENTINEL >>, << 0, SENTINEL >>, << 0, 2 >>, << 2, 0 >> }

\* the string tables tried: none, "a" NUL "b" NUL, and a byte that is not UTF-8
StringTables == { << >>, << 97, 0, 98, 0 >>, << 255, 0 >> }

\* a whole buffer: header declaring count entries, k records, a string table
WholeBuffer(magic, count, k, pair, table) ==
    LET body == Records(k, RawRecord(pair[1], pair[2])) \o table
    IN  magic \o Pack("I", count) \o Pack("H", HeaderSize + Len(body))
              \o Pack("H", HeaderSize + k * RecordSize) \o body

\* the input buffers of fromTlst: every prefix of every whole buffer
Buffers ==
    UNION { { SubSeq(w, 1, cut) : cut \in 0..Len(w) } :
            w \in { WholeBuffer(m, c, k, p, t) :
                      m \in Magics, c \in 0..(MaxRecords + 1), k \in 0..MaxRecords,
                      p \in OffsetPairs, t \in StringTables } }

\* the values of the keys of a JSON object
JsonValue ==
    [songId |-> 7, delay |-> 3, volume |-> -4, frequency |-> 5, switch |-> 6,
     disablePinch |-> TRUE, disableTlstInclusion |-> TRUE,
     title |-> << 97 >>, filename |-> << 233, 98 >>, tracks |-> << >>]

\* the JSON objects: every subset of the keys
Dicts == { [key \in keys |-> JsonValue[key]] : keys \in SUBSET (DOMAIN JsonValue) }

Idle ==
    /\ pos = 0
    /\ x = 0
    /\ numEntries = 0
    /\ stringsOffset = 0
    /\ entry = NewEntry
    /\ filenameOffset = SENTINEL
    /\ titleOffset = SENTINEL
    /\ data = << >>
    /\ entries = << >>
    /\ result = None
    /\ err = ""
    /\ errAt = ""
    /\ first = << >>
    /\ obj = None

\* toTlst on a track list
InitBuild ==
    /\ stage = "build"
    /\ pc = "toTlst"
    /\ tracks \in TrackLists
    /\ orig = tracks
    /\ file = << >>
    /\ d = << >>
    /\ Idle

\* fromTlst on an input buffer
InitExtract ==
    /\ stage = "extract"
    /\ pc = "fromTlst"
    /\ file \in Buffers
    /\ tracks = << >>
    /\ orig = << >>
    /\ d = << >>
    /\ Idle

\* dict_to_object on a JSON object
InitJson ==
    /\ stage = "json"
    /\ pc = "dict_to_object"
    /\ d \in Dicts
    /\ tracks = << >>
    /\ orig = << >>
    /\ file = << >>
    /\ Idle

Init == InitBuild \/ InitExtract \/ InitJson

Next ==
    \/ ToTlstHeader
    \/ ToTlstRecord
    \/ ToTlstFilename
    \/ ToTlstTitle
    \/ ToTlstFinish
    \/ FromTlstHeader
    \/ FromTlstRecord
    \/ ReadNTString
    \/ FromTlstEndCheck
    \/ DictToObject
    \/ StartReread
    \/ StartRebuild

Spec == Init /\ [][Next]_vars

\* fromTlst alone, on the input buffers
NextDecode ==
    \/ FromTlstHeader
    \/ FromTlstRecord
    \/ ReadNTString
    \/ FromTlstEndCheck

\* the interpreter runs on: fromTlst takes its next step whenever it has one
DecodeSpec == InitExtract /\ [][NextDecode]_vars /\ WF_vars(NextDecode)

----------------------------------------------------------------------------
(* What the claims speak of *)

\* the 16-bit big-endian number at position p of f
U16At(f, p) == At(f, p + 1) * 256 + At(f, p + 2)

\* the position of record number i (from 1)
RecordAt(i) == HeaderSize + (i - 1) * RecordSize

\* the number of bytes a string takes in the string region: nothing when it is
\* empty, else its UTF-8 length (two bytes from U+0080 on) and the NUL
StringSize(s) ==
    IF s = << >> THEN 0
    ELSE Size(s) + Cardinality({ i \in 1..Len(s) : s[i] >= 128 }) + 1

\* the bytes the strings of the first i entries take
RECURSIVE StringBytes(_, _)
StringBytes(tr, i) ==
    IF i = 0 THEN 0
    ELSE StringBytes(tr, i - 1) + StringSize(tr[i].filename) + StringSize(tr[i].title)

\* the function has ended, with a value or with an exception
Ended == pc \in {"written", "returned", "raised"}

Writing == stage \in {"build", "rebuild"}

\* the ASCII tag TLST
Tag == << 84, 76, 83, 84 >>

\* C1: reading back what toTlst wrote from a well-formed track list ends with
\* the same track list: the same entries, in the same order, field for field.
RoundTripDecode ==
    (stage = "reread" /\ Ended) => (pc = "returned" /\ result = orig)

\* C2: fromTlst, once started, ends: it returns a track list or raises.
DecodeTerminates ==
    (pc = "fromTlst") ~> (pc \in {"returned", "raised"})

\* C3: writing again what was read back from toTlst's own output gives the
\* same bytes as the first writing.
RoundTripEncode ==
    (stage = "rebuild" /\ Ended) => (pc = "written" /\ file = first)

\* the entry count the header declares
Declared(f) == Unpack("I", Read(f, 4, 4))

\* the number of whole records before the string table or the end of the buffer
Available(f) ==
    LET so == U16At(f, 10)
        to == IF so >= HeaderSize /\ so <= Size(f) THEN so ELSE Size(f)
    IN  (to - HeaderSize) \div RecordSize

\* C4: a buffer with a valid header that declares more entries than it holds
\* records is read without an error, to the track list of the records it holds.
LenientTruncation ==
    (/\ stage = "extract"
     /\ Ended
     /\ Size(file) >= HeaderSize
     /\ Read(file, 0, 4) = Tag
     /\ Declared(file) > Available(file))
        => (pc = "returned" /\ Len(result) = Available(file))

NoPartialEncode ==
    /\ (Writing /\ pc = "raised") => file = << >>
    /\ (Writing /\ pc = "written") =>
            (U16At(file, SizeField) = Size(file)
             /\ U16At(file, SizeField + 2) = RecordAt(Len(tracks) + 1))

\* toTlst is past the strings of entry number i (from 1)
Processed(i) ==
    /\ Writing
    /\ i \in 1..Len(tracks)
    /\ \/ pc \in {"finish", "written"}
       \/ pc \in {"filename", "title"} /\ i <= x
       \/ pc = "raised" /\ errAt = "finish"
       \/ pc = "raised" /\ errAt \in {"filename", "title"} /\ i <= x

\* C7: once toTlst is past the strings of an entry, the entry's filename slot
\* holds 0xFFFF exactly when its filename is empty, and its title slot holds
\* 0xFFFF exactly when its title is empty.
SentinelCorrectness ==
    \A i \in 1..Len(tracks) :
        Processed(i) =>
            /\ (U16At(file, RecordAt(i) + FilenameSlot) = SENTINEL)
                    <=> (tracks[i].filename = << >>)
            /\ (U16At(file, RecordAt(i) + TitleSlot) = SENTINEL)
                    <=> (tracks[i].title = << >>)

\* C8: a JSON track object (one with songId) becomes an entry whose fields are
\* the given values, and the defaults for the keys it omits; nothing is raised.
JsonDefaults ==
    (stage = "json" /\ Ended /\ "songId" \in DOMAIN d)
        => /\ pc = "returned"
           /\ obj.kind = "TLSTEntry"
           /\ \A j \in 1..Len(EntryKeys) :
                obj.value[EntryKeys[j]] =
                    IF EntryKeys[j] \in DOMAIN d THEN d[EntryKeys[j]]
                                                 ELSE NewEntry[EntryKeys[j]]

\* the bytes of f from position p that s takes: s in UTF-8 and the NUL
HoldsString(f, p, s) ==
    /\ p + StringSize(s) <= Size(f)
    /\ Take(Drop(f, p), StringSize(s)) = Utf8Encode(s) \o << 0 >>

\* C9: in a buffer toTlst has written, the stored offset of a non-empty
\* filename is the number of bytes the strings of the entries before it take,
\* that of a non-empty title is the same plus the bytes of the entry's own
\* filename, and each string lies at its offset from the start of the string
\* region; a single entry "song_a.brstm" / "Song A" has offsets 0 and 13.
OffsetAssignment ==
    (Writing /\ pc = "written") =>
        /\ \A i \in 1..Len(tracks) :
             LET region == RecordAt(Len(tracks) + 1)
                 before == StringBytes(tracks, i - 1)
                 fnOff  == U16At(file, RecordAt(i) + FilenameSlot)
                 tOff   == U16At(file, RecordAt(i) + TitleSlot)
             IN  /\ tracks[i].filename # << >> =>
                        /\ fnOff = before
                        /\ HoldsString(file, region + fnOff, tracks[i].filename)
                 /\ tracks[i].title # << >> =>
                        /\ tOff = before + StringSize(tracks[i].filename)
                        /\ HoldsString(file, region + tOff, tracks[i].title)
        /\ tracks = << SongA >> =>
             /\ U16At(file, RecordAt(1) + FilenameSlot) = 0
             /\ U16At(file, RecordAt(1) + TitleSlot) = 13

\* two entries with all four strings have been written
OffsetsAssigned ==
    /\ Writing
    /\ pc = "written"
    /\ Len(tracks) = 2
    /\ \A i \in 1..2 : tracks[i].filename # << >> /\ tracks[i].title # << >>
    /\ U16At(file, RecordAt(2) + FilenameSlot) > 0
    /\ U16At(file, RecordAt(2) + TitleSlot) > U16At(file, RecordAt(2) + FilenameSlot)

\* C10: a buffer toTlst has written is 12 + 16 n bytes and the bytes of its
\* strings long; its strings-offset field is 12 + 16 n and its total-size field
\* is its length; the empty list gives 12 bytes and 12 in both fields.
HeaderAndSize ==
    (Writing /\ pc = "written") =>
        /\ Size(file) = HeaderSize + RecordSize * Len(tracks)
                           + StringBytes(tracks, Len(tracks))
        /\ U16At(file, 10) = HeaderSize + RecordSize * Len(tracks)
        /\ U16At(file, 8) = Size(file)
        /\ tracks = << >> =>
             (Size(file) = 12 /\ U16At(file, 8) = 12 /\ U16At(file, 10) = 12)

\* a list of two entries with strings has been written
HeaderWritten ==
    /\ Writing
    /\ pc = "written"
    /\ Len(tracks) = 2
    /\ Size(file) > RecordAt(3)
    /\ U16At(file, 8) = Size(file)
    /\ U16At(file, 10) = RecordAt(3)

====
